---------------------------- MODULE Spec2Model ----------------------------
(***************************************************************************)
(* Model of scripts/generate-stats.mjs: a single-shot script that pages    *)
(* through a GraphQL API, aggregates commit counts and language sizes,     *)
(* renders a terminal-styled SVG and writes it to assets/stats.svg.        *)
(*                                                                         *)
(* Representation.                                                         *)
(*   - A JavaScript string is a sequence of one-character strings, so that *)
(*     escaping, padding and prefix tests are computed character by        *)
(*     character.                                                          *)
(*   - A nullable value (undefined / null in the source) is None or        *)
(*     Some(v).                                                            *)
(*   - The object langSizes is the sequence of its [name, size] entries in *)
(*     Object.entries order.  Language names returned by the API are       *)
(*     linguist language names: none of them is a canonical array index or *)
(*     a property inherited from Object.prototype, so Object.entries order *)
(*     is insertion order.                                                 *)
(*   - The SVG text is the record of its data-dependent parts; the rest of *)
(*     the template (lines 92-119) is constant markup.                     *)
(***************************************************************************)
EXTENDS Integers, Sequences, FiniteSets, TLC

VARIABLES
    env,                 \* process.env: GITHUB_USERNAME, GITHUB_TOKEN
    pc,                  \* position of the script
    page,                \* main: loop counter
    after,               \* main: pagination cursor
    allRepos,            \* main: repositories fetched so far
    userName,            \* main: display name read from page 0
    followers,           \* main: follower count read from page 0
    publicRepos,         \* main: repository count read from page 0
    totalCommitsApprox,  \* main: sum of commit counts
    langSizes,           \* main: language tally
    topLangs,            \* main: result of computeTopLanguages
    svg,                 \* main: result of renderTerminalSvg
    file,                \* assets/stats.svg: None until written
    fileWrites,          \* number of writeFileSync calls made
    fetchCalls,          \* number of fetch calls issued
    inflight,            \* number of fetch calls awaiting their response
    received,            \* history: the responses received, in order
    exitCode             \* process exit status: None while running

vars == <<env, pc, page, after, allRepos, userName, followers, publicRepos,
          totalCommitsApprox, langSizes, topLangs, svg, file, fileWrites,
          fetchCalls, inflight, received, exitCode>>

-----------------------------------------------------------------------------
(* Bounds of the model *)

MaxStrLen == 2
MaxLangs == 7
MaxSize == 2
MaxRepos == 3

-----------------------------------------------------------------------------
(* Nullable values and generic helpers *)

None == <<>>
Some(v) == <<v>>

Min(a, b) == IF a < b THEN a ELSE b

BoundedSeq(S, n) == UNION {[1..k -> S] : k \in 0..n}

RECURSIVE Repeat(_, _)
Repeat(c, n) == IF n <= 0 THEN <<>> ELSE <<c>> \o Repeat(c, n - 1)

\* String.prototype.startsWith / endsWith
StartsWith(s, p) == Len(p) <= Len(s) /\ SubSeq(s, 1, Len(p)) = p
EndsWith(s, p) == Len(p) <= Len(s) /\ SubSeq(s, Len(s) - Len(p) + 1, Len(s)) = p

\* String.prototype.padEnd / padStart with the default pad character
padEnd(s, n) == s \o Repeat(" ", n - Len(s))
padStart(s, n) == Repeat(" ", n - Len(s)) \o s

\* String.prototype.replaceAll for a one-character pattern
RECURSIVE replaceAll(_, _, _)
replaceAll(s, c, rep) ==
    IF s = <<>> THEN <<>>
    ELSE (IF Head(s) = c THEN rep ELSE <<Head(s)>>) \o replaceAll(Tail(s), c, rep)

\* String(n) for a non-negative integer
DigitChar(d) == <<"0", "1", "2", "3", "4", "5", "6", "7", "8", "9">>[d + 1]
RECURSIVE String(_)
String(n) == IF n < 10 THEN <<DigitChar(n)>>
             ELSE String(n \div 10) \o <<DigitChar(n % 10)>>

-----------------------------------------------------------------------------
(* esc, lines 31-38 *)

Amp == <<"&", "a", "m", "p", ";">>
Lt == <<"&", "l", "t", ";">>
Gt == <<"&", "g", "t", ";">>
Quot == <<"&", "q", "u", "o", "t", ";">>
Apos == <<"&", "#", "3", "9", ";">>

\* A plausible slip: the ampersand is replaced last.
esc_AmpLast(s) ==
    replaceAll(replaceAll(replaceAll(replaceAll(replaceAll(s,
        "<", Lt), ">", Gt), "\"", Quot), "'", Apos), "&", Amp)

esc(s) ==
    replaceAll(replaceAll(replaceAll(replaceAll(replaceAll(s,
        "&", Amp), "<", Lt), ">", Gt), "\"", Quot), "'", Apos)

-----------------------------------------------------------------------------
(* formatNumber, lines 40-42: en-US grouping of a non-negative integer *)

RECURSIVE formatNumber(_)
formatNumber(n) ==
    IF n < 1000 THEN String(n)
    ELSE formatNumber(n \div 1000) \o <<",">>
         \o <<DigitChar((n % 1000) \div 100), DigitChar((n % 100) \div 10),
              DigitChar(n % 10)>>

-----------------------------------------------------------------------------
(* renderTerminalSvg, lines 45-120 *)

USERNAME == env.GITHUB_USERNAME
TOKEN == env.GITHUB_TOKEN

\* !v for a nullable string: undefined and "" are falsy
Falsy(v) == v = None \/ v = Some(<<>>)

W == 760
H == 280
pad == 22
lineHeight == 18
startY == 48
green == "#22c55e"
dim == "#86efac"

Prompt(cmd) == USERNAME[1] \o <<"@", "g", "i", "t", "h", "u", "b", ":", "~", "$", " ">> \o cmd

\* line 50
title(name) == IF name # <<>> THEN name ELSE USERNAME[1]

\* line 62
langLine(l) == padEnd(l.name, 14) \o <<" ">> \o padStart(String(l.percent), 5) \o <<"%">>

\* lines 52-65
lines(a) ==
    << Prompt(<<"w", "h", "o", "a", "m", "i">>),
       title(a.name),
       <<>>,
       Prompt(<<"s", "t", "a", "t", "s", " ", "-", "-", "s", "u", "m", "m", "a", "r", "y">>),
       <<"f", "o", "l", "l", "o", "w", "e", "r", "s", ":", " ">> \o formatNumber(a.followers),
       <<"p", "u", "b", "l", "i", "c", "_", "r", "e", "p", "o", "s", ":", " ">>
           \o formatNumber(a.publicRepos),
       <<"t", "o", "t", "a", "l", "_", "c", "o", "m", "m", "i", "t", "s", " ", "(",
         "a", "p", "p", "r", "o", "x", ")", ":", " ">> \o formatNumber(a.totalCommitsApprox),
       <<>>,
       Prompt(<<"s", "t", "a", "t", "s", " ", "-", "-", "t", "o", "p", "-",
                "l", "a", "n", "g", "u", "a", "g", "e", "s">>) >>
    \o [i \in 1..Len(a.topLangs) |-> langLine(a.topLangs[i])]
    \o << <<>>, Prompt(<<"_">>) >>

\* A plausible slip: the bottom margin is left out of the line budget.
maxLines_NoMargin == (H - startY) \div lineHeight

\* line 77
maxLines == (H - startY - 22) \div lineHeight

\* A plausible slip: the lines are cut from the front (slice(-maxLines)).
clipped_FromEnd(ls) == SubSeq(ls, Len(ls) - Min(Len(ls), maxLines) + 1, Len(ls))

\* line 78: lines.slice(0, maxLines)
clipped(ls) == SubSeq(ls, 1, Min(Len(ls), maxLines))

\* lines 83-87
color(line) ==
    IF StartsWith(line, USERNAME[1] \o <<"@", "g", "i", "t", "h", "u", "b">>) THEN green
    ELSE IF line = <<>> THEN dim
    ELSE IF EndsWith(line, <<"$", " ", "_">>) THEN green
    ELSE dim

\* lines 80-90: one <text> element per clipped line (index i is 1-based here)
textNode(line, i) ==
    [x |-> pad, y |-> startY + (i - 1) * lineHeight, fill |-> color(line),
     text |-> esc(line)]

renderTerminalSvg(a) ==
    LET cl == clipped(lines(a)) IN
    [width |-> W, height |-> H,
     ariaLabel |-> <<"T", "e", "r", "m", "i", "n", "a", "l", " ", "G", "i", "t", "H",
                     "u", "b", " ", "s", "t", "a", "t", "s", " ", "f", "o", "r", " ">>
                   \o esc(USERNAME[1]),
     \* line 112: the header text is this value followed by a constant tail
     header |-> esc(USERNAME[1]),
     textNodes |-> [i \in 1..Len(cl) |-> textNode(cl[i], i)]]

-----------------------------------------------------------------------------
(* computeTopLanguages, lines 122-131 *)

\* A plausible slip: an unstable sort, which puts x before its equals.
insertSorted_Unstable(sorted, x) ==
    LET k == Cardinality({i \in 1..Len(sorted) : sorted[i].size > x.size}) IN
    SubSeq(sorted, 1, k) \o <<x>> \o SubSeq(sorted, k + 1, Len(sorted))

\* Array.prototype.sort places x after every element that does not compare
\* greater than it (stable since ES2019): here, after every entry whose size
\* is at least x.size.
insertSorted(sorted, x) ==
    LET k == Cardinality({i \in 1..Len(sorted) : sorted[i].size >= x.size}) IN
    SubSeq(sorted, 1, k) \o <<x>> \o SubSeq(sorted, k + 1, Len(sorted))

\* line 124: entries.sort((a, b) => b.size - a.size)
RECURSIVE sortBySizeDesc(_)
sortBySizeDesc(entries) ==
    IF entries = <<>> THEN <<>>
    ELSE insertSorted(sortBySizeDesc(SubSeq(entries, 1, Len(entries) - 1)),
                      entries[Len(entries)])

RECURSIVE sumSizes(_)
sumSizes(xs) == IF xs = <<>> THEN 0 ELSE Head(xs).size + sumSizes(Tail(xs))

\* A plausible slip: Math.floor in place of Math.round.
MathRound_Floor(num, den) == num \div den

\* Math.round(num / den) for num >= 0, den > 0: the nearest integer, halves up.
\* On the sizes of this model the double-precision value of (size / total) * 100
\* rounds to the same integer as the exact quotient.
MathRound(num, den) == (2 * num + den) \div (2 * den)

computeTopLanguages(langSizeMap) ==
    LET entries == langSizeMap                         \* line 123
        top == SubSeq(sortBySizeDesc(entries), 1, Min(6, Len(entries)))  \* 124-125
        s == sumSizes(top)
        total == IF s = 0 THEN 1 ELSE s                \* line 126
    IN  [i \in 1..Len(top) |->
            [name |-> top[i].name, percent |-> MathRound(top[i].size * 100, total)]]

-----------------------------------------------------------------------------
(* main: aggregation loop, lines 196-214 *)

\* v ?? d
OrElse(v, d) == IF v = None THEN d ELSE v[1]

\* A plausible slip: only missing records are skipped.
skipRepo_OnlyMissing(r) == r = None

\* line 200: !r || r.isArchived
skipRepo(r) == r = None \/ r[1].isArchived

\* line 212: langSizes[name] = (langSizes[name] ?? 0) + size
addSize(tally, name, size) ==
    IF \E i \in 1..Len(tally) : tally[i].name = name
    THEN [i \in 1..Len(tally) |->
            IF tally[i].name = name
            THEN [name |-> name, size |-> tally[i].size + size]
            ELSE tally[i]]
    ELSE Append(tally, [name |-> name, size |-> size])

\* lines 208-213
RECURSIVE addEdges(_, _)
addEdges(tally, edges) ==
    IF edges = <<>> THEN tally
    ELSE LET e == Head(edges)
             name == e.name                 \* e?.node?.name
             size == OrElse(e.size, 0)      \* e?.size ?? 0
         IN  IF Falsy(name) THEN addEdges(tally, Tail(edges))
             ELSE addEdges(addSize(tally, name[1], size), Tail(edges))

\* lines 199-214, from the accumulator acc = [total, tally]
RECURSIVE aggregate(_, _)
aggregate(repos, acc) ==
    IF repos = <<>> THEN acc
    ELSE LET r == Head(repos) IN
         IF skipRepo(r) THEN aggregate(Tail(repos), acc)
         ELSE aggregate(Tail(repos),
                [total |-> acc.total + OrElse(r[1].commits, 0),
                 tally |-> addEdges(acc.tally, OrElse(r[1].languages, <<>>))])

-----------------------------------------------------------------------------
(* Inputs of the run: environment values and API responses *)

Go == <<"G", "o">>
TS == <<"T", "S">>

SampleHandle == <<"o", "c", "t">>

EnvValues == {None, Some(<<>>), Some(SampleHandle)}

Edge(name, size) == [name |-> Some(name), size |-> Some(size)]

LiveRepo ==
    Some([isArchived |-> FALSE, commits |-> Some(2),
          languages |-> Some(<<Edge(Go, 2), Edge(TS, 1)>>)])
ArchivedRepo ==
    Some([isArchived |-> TRUE, commits |-> Some(5),
          languages |-> Some(<<Edge(TS, 4)>>)])

\* user.repositories.nodes of one page
PageNodes == { <<>>, <<LiveRepo>>, <<None, ArchivedRepo>> }

PageInfos == { Some([hasNextPage |-> h, endCursor |-> Some("Y3Vyc29y")]) : h \in BOOLEAN }

Users ==
    {None}
    \cup {Some([name |-> None, followers |-> None, repositories |-> None])}
    \cup {Some([name |-> n, followers |-> Some(1234),
                repositories |-> Some([totalCount |-> 7, nodes |-> ns, pageInfo |-> pi])]) :
            n \in {None, Some(<<"A", "&", "B">>)}, ns \in PageNodes, pi \in PageInfos}

\* json.data: absent, or an object with a nullable user
DataValues == {None} \cup {Some([user |-> u]) : u \in Users}

\* One settled round trip of gql.  arrives = FALSE: fetch or res.json() rejects
\* (network failure, unreadable body).  Otherwise ok is res.ok, errors is
\* whether json.errors is present, data is json.data.
Responses ==
    {[arrives |-> FALSE, ok |-> FALSE, errors |-> FALSE, data |-> None]}
    \cup [arrives : {TRUE}, ok : BOOLEAN, errors : BOOLEAN, data : DataValues]

-----------------------------------------------------------------------------
(* gql, lines 15-29 *)

\* A plausible slip: json.errors is not looked at.
gqlThrows_IgnoresErrors(res) == ~res.arrives \/ ~res.ok

\* lines 16, 24, 25: the call rejects or throws
gqlThrows(res) == ~res.arrives \/ ~res.ok \/ res.errors

-----------------------------------------------------------------------------
(* The run of the script *)

Init ==
    /\ env \in [GITHUB_USERNAME : EnvValues, GITHUB_TOKEN : EnvValues]
    /\ pc = "load"
    /\ page = 0
    /\ after = None
    /\ allRepos = <<>>
    /\ userName = <<>>
    /\ followers = 0
    /\ publicRepos = 0
    /\ totalCommitsApprox = 0
    /\ langSizes = <<>>
    /\ topLangs = <<>>
    /\ svg = None
    /\ file = None
    /\ fileWrites = 0
    /\ fetchCalls = 0
    /\ inflight = 0
    /\ received = <<>>
    /\ exitCode = None

\* lines 10-11: a top-level throw ends the process with a non-zero status
MissingEnv ==
    /\ pc = "load"
    /\ Falsy(USERNAME) \/ Falsy(TOKEN)
    /\ pc' = "exited"
    /\ exitCode' = Some(1)
    /\ UNCHANGED <<env, page, after, allRepos, userName, followers, publicRepos,
                   totalCommitsApprox, langSizes, topLangs, svg, file, fileWrites,
                   fetchCalls, inflight, received>>

\* A plausible slip: only GITHUB_USERNAME is checked.
StartMain_NoTokenCheck ==
    /\ pc = "load"
    /\ ~Falsy(USERNAME)
    /\ page' = 0
    /\ after' = None
    /\ allRepos' = <<>>
    /\ userName' = <<>>
    /\ followers' = 0
    /\ publicRepos' = 0
    /\ fetchCalls' = fetchCalls + 1
    /\ inflight' = inflight + 1
    /\ pc' = "await"
    /\ UNCHANGED <<env, totalCommitsApprox, langSizes, topLangs, svg, file,
                   fileWrites, received, exitCode>>

\* A plausible slip: the three pages are requested at once.
StartMain_Parallel ==
    /\ pc = "load"
    /\ ~Falsy(USERNAME)
    /\ ~Falsy(TOKEN)
    /\ page' = 0
    /\ after' = None
    /\ allRepos' = <<>>
    /\ userName' = <<>>
    /\ followers' = 0
    /\ publicRepos' = 0
    /\ fetchCalls' = fetchCalls + 3
    /\ inflight' = inflight + 3
    /\ pc' = "await"
    /\ UNCHANGED <<env, totalCommitsApprox, langSizes, topLangs, svg, file,
                   fileWrites, received, exitCode>>

\* lines 10-11 pass; line 233 calls main, which runs lines 169-178 up to the
\* first await: the first gql call is issued
StartMain ==
    /\ pc = "load"
    /\ ~Falsy(USERNAME)
    /\ ~Falsy(TOKEN)
    /\ page' = 0
    /\ after' = None
    /\ allRepos' = <<>>
    /\ userName' = <<>>
    /\ followers' = 0
    /\ publicRepos' = 0
    /\ fetchCalls' = fetchCalls + 1
    /\ inflight' = inflight + 1
    /\ pc' = "await"
    /\ UNCHANGED <<env, totalCommitsApprox, langSizes, topLangs, svg, file,
                   fileWrites, received, exitCode>>

\* lines 233-236: main's rejection is caught, printed, process.exit(1)
Abort ==
    /\ pc' = "exited"
    /\ exitCode' = Some(1)
    /\ UNCHANGED <<env, page, after, allRepos, userName, followers, publicRepos,
                   totalCommitsApprox, langSizes, topLangs, svg, file, fileWrites,
                   fetchCalls>>

\* gql throws (lines 16-27), or main throws reading data.user of an absent
\* data (line 179)
GqlRejects ==
    /\ pc = "await"
    /\ \E res \in Responses :
        /\ gqlThrows(res) \/ res.data = None
        /\ received' = Append(received, res)
    /\ inflight' = inflight - 1
    /\ Abort

\* user?.repositories
repositoriesOf(user) == IF user = None THEN None ELSE user[1].repositories

\* A plausible slip: the page cap is not applied.
loopsAgain_NoCap(pi, p) ==
    /\ pi # None
    /\ pi[1].hasNextPage

\* lines 177, 191-193: after page p, whether the loop goes round again
loopsAgain(pi, p) ==
    /\ pi # None
    /\ pi[1].hasNextPage
    /\ p + 1 < 3

\* gql returns json.data (line 28); main runs lines 179-193 and either issues
\* the next gql call (line 178) or leaves the loop
GqlResolves ==
    /\ pc = "await"
    /\ \E res \in Responses :
        /\ ~gqlThrows(res)
        /\ res.data # None
        /\ received' = Append(received, res)
        /\ LET user == res.data[1].user
               reps == repositoriesOf(user)
               repos == IF reps = None THEN <<>> ELSE reps[1].nodes
               pi == IF reps = None THEN None ELSE reps[1].pageInfo
           IN  /\ IF page = 0
                  THEN /\ userName' = IF user = None THEN <<>> ELSE OrElse(user[1].name, <<>>)
                       /\ followers' = IF user = None THEN 0 ELSE OrElse(user[1].followers, 0)
                       /\ publicRepos' = IF reps = None THEN 0 ELSE reps[1].totalCount
                  ELSE UNCHANGED <<userName, followers, publicRepos>>
               /\ allRepos' = allRepos \o repos
               /\ IF loopsAgain(pi, page)
                  THEN /\ after' = pi[1].endCursor
                       /\ page' = page + 1
                       /\ fetchCalls' = fetchCalls + 1
                       /\ inflight' = inflight
                       /\ pc' = "await"
                  ELSE /\ after' = IF pi # None /\ pi[1].hasNextPage
                                   THEN pi[1].endCursor ELSE after
                       /\ page' = IF pi # None /\ pi[1].hasNextPage THEN page + 1 ELSE page
                       /\ fetchCalls' = fetchCalls
                       /\ inflight' = inflight - 1
                       /\ pc' = "aggregate"
    /\ UNCHANGED <<env, totalCommitsApprox, langSizes, topLangs, svg, file,
                   fileWrites, exitCode>>

\* lines 196-214
Aggregate ==
    /\ pc = "aggregate"
    /\ LET acc == aggregate(allRepos, [total |-> 0, tally |-> <<>>]) IN
        /\ totalCommitsApprox' = acc.total
        /\ langSizes' = acc.tally
    /\ pc' = "compute"
    /\ UNCHANGED <<env, page, after, allRepos, userName, followers, publicRepos,
                   topLangs, svg, file, fileWrites, fetchCalls, inflight, received,
                   exitCode>>

\* line 216
ComputeTop ==
    /\ pc = "compute"
    /\ topLangs' = computeTopLanguages(langSizes)
    /\ pc' = "render"
    /\ UNCHANGED <<env, page, after, allRepos, userName, followers, publicRepos,
                   totalCommitsApprox, langSizes, svg, file, fileWrites, fetchCalls,
                   inflight, received, exitCode>>

\* lines 218-224
Render ==
    /\ pc = "render"
    /\ svg' = Some(renderTerminalSvg([name |-> userName, followers |-> followers,
                                      publicRepos |-> publicRepos,
                                      totalCommitsApprox |-> totalCommitsApprox,
                                      topLangs |-> topLangs]))
    /\ pc' = "write"
    /\ UNCHANGED <<env, page, after, allRepos, userName, followers, publicRepos,
                   totalCommitsApprox, langSizes, topLangs, file, fileWrites,
                   fetchCalls, inflight, received, exitCode>>

\* lines 226-231: the file is written, main resolves, the process ends with
\* status 0
WriteFile ==
    /\ pc = "write"
    /\ file' = svg
    /\ fileWrites' = fileWrites + 1
    /\ pc' = "exited"
    /\ exitCode' = Some(0)
    /\ UNCHANGED <<env, page, after, allRepos, userName, followers, publicRepos,
                   totalCommitsApprox, langSizes, topLangs, svg, fetchCalls,
                   inflight, received>>

Next ==
    \/ MissingEnv
    \/ StartMain
    \/ GqlRejects
    \/ GqlResolves
    \/ Aggregate
    \/ ComputeTop
    \/ Render
    \/ WriteFile

Spec == Init /\ [][Next]_vars

-----------------------------------------------------------------------------
(* The aggregation pass on its own: lines 196-216 applied to every bounded  *)
(* sequence of fetched repository records                                   *)

ValidEnv == [GITHUB_USERNAME |-> Some(SampleHandle), GITHUB_TOKEN |-> Some(<<"t">>)]

EdgeLists ==
    { None,
      Some(<<Edge(Go, 2), Edge(TS, 3)>>),
      Some(<<Edge(TS, 1), [name |-> None, size |-> Some(5)],
             [name |-> Some(Go), size |-> None]>>) }

RepoValues ==
    {None} \cup { Some([isArchived |-> ar, commits |-> c, languages |-> ls]) :
                    ar \in BOOLEAN, c \in {None, Some(3)}, ls \in EdgeLists }

InitAggregate ==
    /\ env = ValidEnv
    /\ pc = "aggregate"
    /\ page = 0
    /\ after = None
    /\ allRepos \in BoundedSeq(RepoValues, MaxRepos)
    /\ userName = <<>>
    /\ followers = 0
    /\ publicRepos = 0
    /\ totalCommitsApprox = 0
    /\ langSizes = <<>>
    /\ topLangs = <<>>
    /\ svg = None
    /\ file = None
    /\ fileWrites = 0
    /\ fetchCalls = 0
    /\ inflight = 0
    /\ received = <<>>
    /\ exitCode = None

NextAggregate ==
    \/ Aggregate
    \/ ComputeTop

SpecAggregate == InitAggregate /\ [][NextAggregate]_vars

-----------------------------------------------------------------------------
(* computeTopLanguages on its own: line 216 applied to every bounded tally  *)

KnownLangs ==
    << Go,
       <<"C", "a", "p", "'", "n", " ", "P", "r", "o", "t", "o">>,
       TS,
       <<"C", "+", "+">>,
       <<"J", "u", "p", "y", "t", "e", "r", " ", "N", "o", "t", "e", "b", "o", "o", "k">>,
       <<"R", "e", "n", "'", "P", "y">> >>

\* the i-th language name of the bounded inputs
LangName(i) == IF i <= Len(KnownLangs) THEN KnownLangs[i] ELSE <<"L">> \o String(i)

\* the tally of n languages whose sizes, in encounter order, are f[1..n]
TallyWith(n, f) == [i \in 1..n |-> [name |-> LangName(i), size |-> f[i]]]

InitLang ==
    /\ env = ValidEnv
    /\ pc = "compute"
    /\ page = 0
    /\ after = None
    /\ allRepos = <<>>
    /\ userName = <<>>
    /\ followers = 0
    /\ publicRepos = 0
    /\ totalCommitsApprox = 0
    /\ \E n \in 0..MaxLangs : \E f \in [1..n -> 0..MaxSize] : langSizes = TallyWith(n, f)
    /\ topLangs = <<>>
    /\ svg = None
    /\ file = None
    /\ fileWrites = 0
    /\ fetchCalls = 0
    /\ inflight = 0
    /\ received = <<>>
    /\ exitCode = None

NextLang == ComputeTop

SpecLang == InitLang /\ [][NextLang]_vars

-----------------------------------------------------------------------------
(* renderTerminalSvg on its own: lines 218-224 applied to bounded profile   *)
(* texts and top-language lists                                             *)

Chars == {"a", "&", "<", ">", "\"", "'"}

HostileHandle == <<"<", "&", "\"">>

Handles == {SampleHandle, HostileHandle}

TopLists ==
    { [i \in 1..k |-> [name |-> LangName(i), percent |-> (i * 37) % 101]] :
        k \in 0..MaxLangs }

InitRender ==
    /\ env \in {[GITHUB_USERNAME |-> Some(h), GITHUB_TOKEN |-> Some(<<"t">>)] : h \in Handles}
    /\ pc = "render"
    /\ page = 0
    /\ after = None
    /\ allRepos = <<>>
    /\ userName \in BoundedSeq(Chars, MaxStrLen)
    /\ followers = 1234
    /\ publicRepos = 7
    /\ totalCommitsApprox = 1002003
    /\ langSizes = <<>>
    /\ topLangs \in TopLists
    /\ svg = None
    /\ file = None
    /\ fileWrites = 0
    /\ fetchCalls = 0
    /\ inflight = 0
    /\ received = <<>>
    /\ exitCode = None

NextRender == Render

SpecRender == InitRender /\ [][NextRender]_vars

-----------------------------------------------------------------------------
(* Claims about the run (Spec) *)

\* A fetched page whose page-info block says there is a next page.
ReportsNextPage(res) ==
    /\ res.arrives /\ res.ok /\ ~res.errors
    /\ res.data # None
    /\ res.data[1].user # None
    /\ res.data[1].user[1].repositories # None
    /\ res.data[1].user[1].repositories[1].pageInfo # None
    /\ res.data[1].user[1].repositories[1].pageInfo[1].hasNextPage

\* C1: at most 3 fetch calls are made in any run; the call for page k+1
\* (k = 1, 2) is made only if page k was fetched and reported has-next-page
\* true; when pages 1 and 2 both report has-next-page true exactly 3 calls are
\* made, and never a 4th, whatever page 3 reports.
C1_AtMostThreePages ==
    /\ fetchCalls <= 3
    /\ \A k \in 1..2 :
          fetchCalls >= k + 1 => (k <= Len(received) /\ ReportsNextPage(received[k]))
    /\ (Len(received) >= 2 /\ ReportsNextPage(received[1]) /\ ReportsNextPage(received[2]))
          => fetchCalls = 3

\* C1 witness: the run has ended after a third page that reported a next page.
C1_Witness ==
    /\ pc = "exited"
    /\ exitCode = Some(0)
    /\ Len(received) = 3
    /\ ReportsNextPage(received[3])
    /\ fetchCalls = 3

\* The three failures of a fetch call: network failure, non-success HTTP
\* status, an errors payload.
FailedFetch(res) == ~res.arrives \/ ~res.ok \/ res.errors

\* C2: if a fetch call fails (network failure, non-success status, errors
\* payload) the run aborts at once: the failed call is the last call made, the
\* output file is not written, and the process has exited with a non-zero
\* status.
C2_FetchFailureAborts ==
    \A k \in 1..Len(received) :
        FailedFetch(received[k]) =>
            /\ k = Len(received)
            /\ fetchCalls = k
            /\ inflight = 0
            /\ file = None
            /\ fileWrites = 0
            /\ pc = "exited"
            /\ exitCode # None
            /\ exitCode[1] # 0

\* C2 witness: the third call fails with an errors payload on a 200 response,
\* after two pages that delivered repositories.
C2_Witness ==
    /\ Len(received) = 3
    /\ received[3].arrives /\ received[3].ok /\ received[3].errors
    /\ allRepos # <<>>
    /\ pc = "exited"

\* C3: if the account handle or the token is absent from the environment, the
\* script can only terminate: no fetch call is ever made, the output file is
\* never written, and once the script has moved it has exited with a non-zero
\* status.
C3_MissingEnvExitsBeforeFetch ==
    (USERNAME = None \/ TOKEN = None) =>
        /\ fetchCalls = 0
        /\ inflight = 0
        /\ file = None
        /\ fileWrites = 0
        /\ pc \in {"load", "exited"}
        /\ pc = "load" => (ENABLED MissingEnv /\ ~ENABLED StartMain)
        /\ pc = "exited" => (exitCode # None /\ exitCode[1] # 0)

\* C3 witness: the handle is set, the token is absent, and the process has
\* exited.
C3_Witness ==
    /\ ~Falsy(USERNAME)
    /\ TOKEN = None
    /\ pc = "exited"
    /\ exitCode = Some(1)

\* The run's data is what the stage reached says it is.
SequentialState ==
    /\ inflight \in {0, 1}
    /\ inflight = 1 <=> pc = "await"
    /\ Len(received) = fetchCalls - inflight
    /\ fileWrites <= 1
    /\ fileWrites = 1 <=> file # None
    /\ file # None <=> (pc = "exited" /\ exitCode = Some(0))
    /\ file # None => (svg # None /\ file = svg)
    /\ svg # None <=> (pc = "write" \/ (pc = "exited" /\ exitCode = Some(0)))

\* What one step may do, given the stage it starts from.
SequentialStep ==
    /\ fetchCalls' # fetchCalls => (pc \in {"load", "await"} /\ inflight' = 1 /\ pc' = "await")
    /\ allRepos' # allRepos => pc = "await"
    /\ (totalCommitsApprox' # totalCommitsApprox \/ langSizes' # langSizes \/ pc' = "compute")
          => (pc = "aggregate" /\ inflight = 0 /\ allRepos' = allRepos
              /\ fetchCalls' = fetchCalls /\ Len(received) = fetchCalls)
    /\ pc = "aggregate" => pc' = "compute"
    /\ (topLangs' # topLangs \/ pc' = "render") => (pc = "compute" /\ langSizes' = langSizes)
    /\ svg' # svg =>
          (pc = "render" /\ topLangs' = topLangs /\ totalCommitsApprox' = totalCommitsApprox)
    /\ pc' = "write" => pc = "render"
    /\ file' # file => (pc = "write" /\ svg # None /\ fileWrites' = 1 /\ exitCode' = Some(0))
    /\ pc = "exited" => UNCHANGED vars

\* C8: execution is strictly sequential: at most one fetch call is
\* outstanding at any time; aggregation begins only after the last fetch has
\* completed and no fetch follows it; rendering begins only after aggregation
\* and top-language computation; the output file is written exactly once,
\* after rendering, on the successful run, which then exits with status 0.
C8_StrictlySequential == []SequentialState /\ [][SequentialStep]_vars

\* C8 witness: a successful run over three pages has written the file.
C8_Witness ==
    /\ pc = "exited"
    /\ exitCode = Some(0)
    /\ fetchCalls = 3
    /\ fileWrites = 1
    /\ file = svg
    /\ totalCommitsApprox > 0

-----------------------------------------------------------------------------
(* Claims about the aggregation pass (SpecAggregate) *)

IsLive(r) == r # None /\ ~r[1].isArchived

LiveRepos == SelectSeq(allRepos, IsLive)

RECURSIVE SumCommitsOf(_)
SumCommitsOf(repos) ==
    IF repos = <<>> THEN 0
    ELSE (IF Head(repos)[1].commits = None THEN 0 ELSE Head(repos)[1].commits[1])
         + SumCommitsOf(Tail(repos))

\* bytes of language name reported by the edges es
RECURSIVE BytesInEdges(_, _)
BytesInEdges(es, name) ==
    IF es = <<>> THEN 0
    ELSE (IF Head(es).name = Some(name) /\ Head(es).size # None THEN Head(es).size[1] ELSE 0)
         + BytesInEdges(Tail(es), name)

RECURSIVE BytesInRepos(_, _)
BytesInRepos(repos, name) ==
    IF repos = <<>> THEN 0
    ELSE (IF Head(repos)[1].languages = None THEN 0
          ELSE BytesInEdges(Head(repos)[1].languages[1], name))
         + BytesInRepos(Tail(repos), name)

TallyOf(tally, name) ==
    IF \E i \in 1..Len(tally) : tally[i].name = name
    THEN (CHOOSE e \in {tally[i] : i \in 1..Len(tally)} : e.name = name).size
    ELSE 0

\* C4: archived (and missing) records contribute nothing: the total commit
\* count is the sum of the commit counts of the non-archived records, every
\* language's tally is the sum of its sizes over the non-archived records, and
\* the whole result (total, tally and top languages) equals the result of
\* aggregating the sequence with the archived and missing records removed.
C4_ArchivedContributeNothing ==
    pc \in {"compute", "render"} =>
        /\ totalCommitsApprox = SumCommitsOf(LiveRepos)
        /\ \A name \in {Go, TS} : TallyOf(langSizes, name) = BytesInRepos(LiveRepos, name)
        /\ \A i \in 1..Len(langSizes) : langSizes[i].name \in {Go, TS}
        /\ [total |-> totalCommitsApprox, tally |-> langSizes]
              = aggregate(LiveRepos, [total |-> 0, tally |-> <<>>])
        /\ pc = "render" =>
              topLangs = computeTopLanguages(
                            aggregate(LiveRepos, [total |-> 0, tally |-> <<>>]).tally)

\* C4 witness: an archived record with commits and languages, a missing record
\* and a live record have been aggregated.
C4_Witness ==
    /\ pc = "render"
    /\ \E i \in 1..Len(allRepos) :
          /\ allRepos[i] # None
          /\ allRepos[i][1].isArchived
          /\ allRepos[i][1].commits # None
          /\ allRepos[i][1].languages # None
    /\ \E i \in 1..Len(allRepos) : allRepos[i] = None
    /\ totalCommitsApprox > 0
    /\ langSizes # <<>>

-----------------------------------------------------------------------------
(* Claims about computeTopLanguages (SpecLang) *)

\* position in the tally of the language of the i-th result entry
TallyIndex(i) == CHOOSE m \in 1..Len(langSizes) : langSizes[m].name = topLangs[i].name

\* tally entry a ranks before tally entry b: larger size, or equal size and
\* encountered first
RanksBefore(a, b) ==
    \/ langSizes[a].size > langSizes[b].size
    \/ (langSizes[a].size = langSizes[b].size /\ a < b)

\* C5: for a tally of n languages the result has exactly min(6, n) entries:
\* the first min(6, n) languages of the tally in order of size descending,
\* equal sizes in first-encountered order.
C5_TopSixStableOrder ==
    pc = "render" =>
        /\ Len(topLangs) = Min(6, Len(langSizes))
        /\ \A i \in 1..Len(topLangs) :
              \E m \in 1..Len(langSizes) : langSizes[m].name = topLangs[i].name
        /\ \A i, j \in 1..Len(topLangs) : i < j => RanksBefore(TallyIndex(i), TallyIndex(j))
        /\ \A m \in 1..Len(langSizes) :
              (\A i \in 1..Len(topLangs) : TallyIndex(i) # m)
                  => \A i \in 1..Len(topLangs) : RanksBefore(TallyIndex(i), m)

\* C5 witness: more than 6 languages, with a tie inside the result and a tie
\* across the cut.
C5_Witness ==
    /\ pc = "render"
    /\ Len(langSizes) > 6
    /\ Len(topLangs) = 6
    /\ \E i \in 1..5 : langSizes[TallyIndex(i)].size = langSizes[TallyIndex(i + 1)].size
    /\ \E m \in 1..Len(langSizes) :
          /\ \A i \in 1..6 : TallyIndex(i) # m
          /\ langSizes[m].size = langSizes[TallyIndex(6)].size
          /\ langSizes[m].size > 0

RECURSIVE SumOfReturned(_)
SumOfReturned(i) ==
    IF i = 0 THEN 0 ELSE langSizes[TallyIndex(i)].size + SumOfReturned(i - 1)

-----------------------------------------------------------------------------
(* Claims about renderTerminalSvg (SpecRender) *)

\* the arguments main passes to renderTerminalSvg, lines 218-224
RenderArgs ==
    [name |-> userName, followers |-> followers, publicRepos |-> publicRepos,
     totalCommitsApprox |-> totalCommitsApprox, topLangs |-> topLangs]

Reserved == {"&", "<", ">", "\"", "'"}

\* the escaped form of one character
EntityOf(c) ==
    CASE c = "&" -> Amp
      [] c = "<" -> Lt
      [] c = ">" -> Gt
      [] c = "\"" -> Quot
      [] c = "'" -> Apos
      [] OTHER -> <<c>>

\* every character of s replaced, once, by its escaped form
RECURSIVE EscapedOnce(_)
EscapedOnce(s) == IF s = <<>> THEN <<>> ELSE EntityOf(Head(s)) \o EscapedOnce(Tail(s))

\* t holds no raw reserved character: none of < > " ', and every & begins one
\* of the five escapes
NoRawReserved(t) ==
    \A j \in 1..Len(t) :
        /\ t[j] \notin {"<", ">", "\"", "'"}
        /\ t[j] = "&" =>
              \E e \in {Amp, Lt, Gt, Quot, Apos} :
                  /\ j + Len(e) - 1 <= Len(t)
                  /\ SubSeq(t, j, j + Len(e) - 1) = e

AriaPrefix ==
    <<"T", "e", "r", "m", "i", "n", "a", "l", " ", "G", "i", "t", "H",
      "u", "b", " ", "s", "t", "a", "t", "s", " ", "f", "o", "r", " ">>

\* C7: wherever the renderer embeds free text (each text line, the header
\* title, the aria-label) every reserved character of the text appears only
\* as its escape, no raw reserved character remains, and no escape is escaped
\* a second time.
C7_FreeTextEscaped ==
    pc = "write" =>
        LET out == svg[1]
            shown == clipped(lines(RenderArgs))
        IN  /\ Len(out.textNodes) = Len(shown)
            /\ \A i \in 1..Len(out.textNodes) :
                  /\ out.textNodes[i].text = EscapedOnce(shown[i])
                  /\ NoRawReserved(out.textNodes[i].text)
            /\ out.header = EscapedOnce(USERNAME[1])
            /\ NoRawReserved(out.header)
            /\ out.ariaLabel = AriaPrefix \o EscapedOnce(USERNAME[1])
            /\ NoRawReserved(out.ariaLabel)

\* C7 witness: the display name, the handle and a rendered language name hold
\* reserved characters, an ampersand and a bracket among them.
C7_Witness ==
    /\ pc = "write"
    /\ \E i, j \in 1..Len(userName) : userName[i] = "&" /\ userName[j] = "<"
    /\ USERNAME[1] = HostileHandle
    /\ \E k \in 1..Min(2, Len(topLangs)) :
          \E j \in 1..Len(topLangs[k].name) : topLangs[k].name[j] \in Reserved
    /\ \E i \in 1..Len(svg[1].textNodes) :
          StartsWith(svg[1].textNodes[i].text, Amp \o Lt)

\* C9: of a built line list of length n exactly the first min(n, maxLines)
\* lines are rendered, in their order, with
\* maxLines = floor((height - top offset - 22) / line step); line i (0-based)
\* is placed at y = top offset + i * line step.
C9_ClippedFromTheEnd ==
    pc = "write" =>
        LET out == svg[1]
            built == lines(RenderArgs)
            m == Min(Len(built), (H - startY - 22) \div lineHeight)
        IN  /\ Len(out.textNodes) = m
            /\ \A i \in 1..m :
                  /\ out.textNodes[i].text = esc(built[i])
                  /\ out.textNodes[i].y = startY + (i - 1) * lineHeight

\* C9 witness: more lines were built than fit, so lines were dropped.
C9_Witness ==
    /\ pc = "write"
    /\ Len(lines(RenderArgs)) > Len(svg[1].textNodes)
    /\ Len(svg[1].textNodes) > 0
    /\ topLangs # <<>>

\* language entry k has its line in the image
LanguageShown(k) ==
    /\ 9 + k <= Len(svg[1].textNodes)
    /\ svg[1].textNodes[9 + k].text = esc(langLine(topLangs[k]))

\* the final prompt line, ending in the cursor marker, is in the image
FinalPromptShown ==
    /\ Len(svg[1].textNodes) = 11 + Len(topLangs)
    /\ svg[1].textNodes[11 + Len(topLangs)].text = esc(Prompt(<<"_">>))
    /\ EndsWith(svg[1].textNodes[11 + Len(topLangs)].text, <<"$", " ", "_">>)

\* C10: with the fixed canvas at most 11 text lines are emitted, so exactly
\* the first 2 language entries (or fewer, if there are fewer) are shown, and
\* the final prompt line is shown if and only if the language list is empty.
C10_AtMostElevenLines ==
    pc = "write" =>
        /\ Len(svg[1].textNodes) <= 11
        /\ \A k \in 1..Len(topLangs) : LanguageShown(k) <=> k <= 2
        /\ FinalPromptShown <=> topLangs = <<>>

\* C10 witness: three or more languages were given to the renderer.
C10_Witness ==
    /\ pc = "write"
    /\ Len(topLangs) >= 3
    /\ LanguageShown(2)
    /\ ~LanguageShown(3)

=============================================================================
